---- MODULE Spec2Model ----
(***************************************************************************)
(* Model of the Documents client of src/chatbot/documents.py: the retry    *)
(* loops around the calls into the Weaviate store, the collection and      *)
(* document operations built on them, and the chunker break_up_content.    *)
(*                                                                         *)
(* A client is a stack of frames, one per running method; every step is    *)
(* one straight-line piece of a method up to and including one call into   *)
(* the store together with the except-branch that follows it.              *)
(***************************************************************************)
EXTENDS Integers, Sequences, FiniteSets, TLC

\* ------------------------------------------------------------------ bounds
MaxRetry == 2
MaxLen == 4
MaxChunk == 2
MaxIds == 2

\* ------------------------------------------------------------- characters
LF == "\n"
CR == "\r"
Alphabet == {"a", "b", LF, CR}

IsUpper(ch) == ch \in {"A", "B"}
IsLower(ch) == ch \in {"a", "b"}
IsCased(ch) == IsUpper(ch) \/ IsLower(ch)
Upper(ch) == IF ch = "a" THEN "A" ELSE IF ch = "b" THEN "B" ELSE ch
Lower(ch) == IF ch = "A" THEN "a" ELSE IF ch = "B" THEN "b" ELSE ch

\* str.title(): a cased character that follows a cased character is
\* lowercased, any other cased character is uppercased.
Title(s) ==
    [i \in 1..Len(s) |->
        IF i > 1 /\ IsCased(s[i - 1]) THEN Lower(s[i]) ELSE Upper(s[i])]

\* The name under which the store files a collection created as `s`:
\* Weaviate capitalises the first letter of a class name and keeps the rest.
StoreName(s) ==
    IF s = <<>> THEN s ELSE <<Upper(s[1])>> \o Tail(s)

\* Collection names handed to the client
Names == { <<"a", "a">>, <<"a", "B">> }
Clients == {1, 2}

\* ---------------------------------------------------------------- chunker
RECURSIVE SplitFrom(_, _, _)
SplitFrom(t, i, cur) ==
    IF i > Len(t) THEN (IF cur = <<>> THEN <<>> ELSE <<cur>>)
    ELSE IF t[i] = CR /\ i < Len(t) /\ t[i + 1] = LF
         THEN <<cur>> \o SplitFrom(t, i + 2, <<>>)
    ELSE IF t[i] \in {LF, CR}
         THEN <<cur>> \o SplitFrom(t, i + 1, <<>>)
    ELSE SplitFrom(t, i + 1, Append(cur, t[i]))

\* str.splitlines(): the lines of t without their line breaks; a line break
\* at the very end opens no further line.
SplitLines(t) == SplitFrom(t, 1, <<>>)

\* the test of line 592
MustFlush(current_chunk, line, max_size) ==
    Len(current_chunk) + Len(line) > max_size

\* break_up_content's loop with the reset of line 594 moved after line 595
RECURSIVE BreakLoopResetLate(_, _, _, _, _)
BreakLoopResetLate(lines, i, result, current_chunk, max_size) ==
    IF i > Len(lines) THEN Append(result, current_chunk)
    ELSE IF Len(current_chunk) + Len(lines[i]) > max_size
         THEN BreakLoopResetLate(lines, i + 1, Append(result, current_chunk),
                                 <<>>, max_size)
         ELSE BreakLoopResetLate(lines, i + 1, result,
                                 current_chunk \o lines[i] \o <<LF>>, max_size)

RECURSIVE BreakLoop(_, _, _, _, _)
BreakLoop(lines, i, result, current_chunk, max_size) ==
    IF i > Len(lines) THEN Append(result, current_chunk)
    ELSE IF MustFlush(current_chunk, lines[i], max_size)
         THEN BreakLoop(lines, i + 1, Append(result, current_chunk),
                        lines[i] \o <<LF>>, max_size)
         ELSE BreakLoop(lines, i + 1, result,
                        current_chunk \o lines[i] \o <<LF>>, max_size)

\* the test of line 586 with >= in place of >
AtLeastMax(text, max_size) == Len(text) >= max_size
\* the test of line 586
TooLong(text, max_size) == Len(text) > max_size

break_up_content(text, max_size) ==
    IF TooLong(text, max_size)
    THEN BreakLoop(SplitLines(text), 1, <<>>, <<>>, max_size)
    ELSE <<text>>

RECURSIVE Concat(_)
Concat(ss) == IF ss = <<>> THEN <<>> ELSE Head(ss) \o Concat(Tail(ss))

RECURSIVE TextsUpTo(_)
TextsUpTo(n) ==
    IF n = 0 THEN { <<>> }
    ELSE LET shorter == TextsUpTo(n - 1)
         IN  shorter \cup { Append(t, ch) : t \in { s \in shorter : Len(s) = n - 1 },
                                           ch \in Alphabet }

\* ------------------------------------------------------------------ state
VARIABLES
    retry,          \* self.retry, the budget R given to the constructor
    max_chunk_size, \* self.max_chunk_size
    client,         \* per client: whether self.client holds a connection handle
    stack,          \* per client: the frames of the methods that are running
    ret,            \* per client: what the method that ended last returned or raised
    collections,    \* the store: the names of its collections, as the store files them
    docs,           \* the store: id -> record of the objects of collection DocColl
    nextId,         \* the store: the next id it assigns
    inv,            \* per client: the public operation invoked last, with the store as it was
    cnt,            \* per client: calls issued to the store since that invocation, by kind
    ev,             \* the step taken last
    chunk_text,     \* break_up_content: the text argument
    chunk_max,      \* break_up_content: the max_size argument
    chunk_out,      \* break_up_content: the returned list
    chunk_done      \* whether break_up_content has returned

chunk_vars == <<chunk_text, chunk_max, chunk_out, chunk_done>>
config_vars == <<retry, max_chunk_size>>
store_vars == <<collections, docs, nextId>>
vars == <<retry, max_chunk_size, client, stack, ret, collections, docs, nextId,
          inv, cnt, ev, chunk_text, chunk_max, chunk_out, chunk_done>>

Files == {"f", "g"}

\* the collection the document operations work on ("test" in the module's test)
DocColl == <<"a", "a">>

\* the store calls counted per invocation
CallKinds == {"create", "delete", "delete_by_id", "insert_many", "iterate"}

NoRet == [kind |-> "none", val |-> "None", err |-> "none"]
NoDocs == [i \in {} |-> "None"]
\* what the readers get out of the file at tmp_file; exists = FALSE when no
\* file can be opened there (tmp_file=None included)
NoFile == [exists |-> FALSE, text |-> <<>>, pages |-> <<>>,
           has_title |-> FALSE, title_string |-> "", paragraphs |-> <<>>]
NoArgs == [coll |-> <<>>, uuid |-> 0, filename |-> "", query |-> "",
           title |-> "", doc_type |-> "", chunk |-> <<>>, content |-> <<>>,
           tmp_file |-> NoFile]
NoEv == [c |-> 0, op |-> "none", call |-> "none", arg |-> "None", first |-> "None",
         n |-> 0, out |-> "none", reconn |-> "none", fin |-> "none", err |-> "none"]
ZeroCnt == [k \in CallKinds |-> 0]

\* a method called with arguments a: its locals as they are on entry
Frame(op, a) ==
    [op |-> op, pc |-> "start", x |-> retry, n |-> 0, a |-> a,
     coll |-> [name |-> a.coll, obj |-> FALSE],
     dd |-> <<>>, todo |-> <<>>, r |-> "None", first |-> "None"]

Top(c) == stack[c][Len(stack[c])]
Below(c) == SubSeq(stack[c], 1, Len(stack[c]) - 1)
Running(c, op, pc) ==
    /\ stack[c] # <<>>
    /\ Top(c).op = op
    /\ Top(c).pc = pc
Idle(c) == stack[c] = <<>> /\ ret[c].kind = "none"
Ended(c) == stack[c] = <<>> /\ ret[c].kind # "none"

InitStore ==
    /\ collections = {}
    /\ docs = NoDocs
    /\ nextId = 1

InitClients ==
    /\ client = [c \in Clients |-> FALSE]
    /\ stack = [c \in Clients |-> <<>>]
    /\ ret = [c \in Clients |-> NoRet]
    /\ inv = [c \in Clients |-> [op |-> "none", a |-> NoArgs,
                                 collections |-> {}, docs |-> NoDocs]]
    /\ cnt = [c \in Clients |-> ZeroCnt]
    /\ ev = NoEv

ChunkerUnused ==
    /\ chunk_text = <<>>
    /\ chunk_max = 1
    /\ chunk_out = <<>>
    /\ chunk_done = FALSE

Init ==
    /\ retry \in 0..MaxRetry
    /\ max_chunk_size = MaxChunk
    /\ InitClients
    /\ InitStore
    /\ ChunkerUnused

\* --------------------------------------------------------- control helpers
\* the method on top of c's stack goes on as frame f
Continue(c, f) ==
    /\ stack' = [stack EXCEPT ![c] = Below(c) \o <<f>>]
    /\ ret' = [ret EXCEPT ![c] = NoRet]

\* the method on top of c's stack calls another method
Call(c, f, callee) ==
    /\ stack' = [stack EXCEPT ![c] = Below(c) \o <<f, callee>>]
    /\ ret' = [ret EXCEPT ![c] = NoRet]

\* the method on top of c's stack returns val
Return(c, val) ==
    /\ stack' = [stack EXCEPT ![c] = Below(c)]
    /\ ret' = [ret EXCEPT ![c] = [kind |-> "ret", val |-> val, err |-> "none"]]

\* the method on top of c's stack raises err
Raise(c, err) ==
    /\ stack' = [stack EXCEPT ![c] = Below(c)]
    /\ ret' = [ret EXCEPT ![c] = [kind |-> "exc", val |-> "None", err |-> err]]

\* one more call of this kind (counted up to one past the budget)
Count(c, kind) ==
    cnt' = [cnt EXCEPT ![c][kind] = IF @ > retry THEN @ ELSE @ + 1]

\* connect(): TRUE when one of its self.retry attempts got a handle, FALSE
\* when it raised WeaviateConnectionError; with self.retry = 0 it makes no
\* attempt and raises.
ConnectResults == IF retry = 0 THEN {FALSE} ELSE {TRUE, FALSE}

\* how the head of a method records its connect(): made and got a handle, or
\* not made because the client holds one
Connected(c) == IF client[c] THEN "none" ELSE "ok"

\* `except WeaviateConnectionError`: the errors the retry loops catch
CatchesAnything(err) == TRUE
Catches(err) == err = "ConnErr"

\* the budget set anew when it is about to run out
Refill(x) == IF x = 1 THEN retry ELSE x - 1
\* `x -= 1` of the except-branches
KeepBudget(x) == x
Decrement(x) == x - 1

\* the head of a method without its `if not self.client: self.connect()`
PrologueUnconnected(c, f, e) ==
    /\ UNCHANGED client
    /\ IF f.x = 0
       THEN /\ Raise(c, "ConnErr")
            /\ ev' = [e EXCEPT !.fin = "exc", !.err = "ConnErr"]
       ELSE /\ Continue(c, f)
            /\ ev' = [e EXCEPT !.fin = "cont"]
\* `if not self.client: self.connect()` at the head of a method, then on to
\* its loop; `while x` with no budget falls through to `if not x: raise`.
Prologue(c, f, e) ==
    \E ok \in (IF client[c] THEN {TRUE} ELSE ConnectResults) :
        /\ client' = [client EXCEPT ![c] = ok]
        /\ IF ~ok
           THEN /\ Raise(c, "ConnErr")
                /\ ev' = [e EXCEPT !.reconn = "fail", !.fin = "exc", !.err = "ConnErr"]
           ELSE IF f.x = 0
           THEN /\ Raise(c, "ConnErr")
                /\ ev' = [e EXCEPT !.reconn = Connected(c), !.fin = "exc",
                                   !.err = "ConnErr"]
           ELSE /\ Continue(c, f)
                /\ ev' = [e EXCEPT !.reconn = Connected(c), !.fin = "cont"]

\* An except-branch that caught a connectivity error: self.connect(), x -= 1,
\* and back to the head of the loop at program point pc; connect() raising
\* ends the method, and so does a budget that reached 0.
Handler(c, f, pc, e) ==
    \E ok \in ConnectResults :
        IF ~ok
        THEN /\ UNCHANGED client
             /\ Raise(c, "ConnErr")
             /\ ev' = [e EXCEPT !.reconn = "fail", !.fin = "exc", !.err = "ConnErr"]
        ELSE /\ client' = [client EXCEPT ![c] = TRUE]
             /\ IF Decrement(f.x) = 0
                THEN /\ Raise(c, "ConnErr")
                     /\ ev' = [e EXCEPT !.reconn = "ok", !.fin = "exc", !.err = "ConnErr"]
                ELSE /\ Continue(c, [f EXCEPT !.x = Decrement(f.x), !.pc = pc])
                     /\ ev' = [e EXCEPT !.reconn = "ok", !.fin = "cont"]

\* An exception err leaves a try-block: caught and retried, or passed on.
Except(c, f, pc, e, err) ==
    IF Catches(err)
    THEN Handler(c, f, pc, e)
    ELSE /\ UNCHANGED client
         /\ Raise(c, err)
         /\ ev' = [e EXCEPT !.fin = "exc", !.err = err]

\* a step of client c in method op: the store call it issued (or "none"), the
\* argument of the call, the pass n of the method's loop it belongs to, and
\* how the call or the called method ended
Event(c, op, call, arg, n, out) ==
    [c |-> c, op |-> op, call |-> call, arg |-> arg, first |-> "None", n |-> n,
     out |-> out, reconn |-> "none", fin |-> "none", err |-> "none"]

\* how a step that ended with exception err is recorded
Outcome(err) == IF err = "ConnErr" THEN "connerr" ELSE "error"

\* frame f as it enters the next pass of its loop, about to call with arg
\* (passes are counted up to one past the budget)
Pass(f, arg) ==
    [f EXCEPT !.n = IF @ > retry THEN @ ELSE @ + 1,
              !.first = IF f.n = 0 THEN arg ELSE @]

\* the step of pass f.n of frame f's loop
Attempt(c, f, call, arg, out) ==
    [Event(c, f.op, call, arg, f.n, out) EXCEPT !.first = f.first]

\* a public operation is invoked on an idle client
Invoke(c, op, a) ==
    /\ Idle(c)
    /\ stack' = [stack EXCEPT ![c] = <<Frame(op, a)>>]
    /\ ret' = [ret EXCEPT ![c] = NoRet]
    /\ inv' = [inv EXCEPT ![c] = [op |-> op, a |-> a,
                                  collections |-> collections, docs |-> docs]]
    /\ cnt' = [cnt EXCEPT ![c] = ZeroCnt]
    /\ ev' = Event(c, op, "none", "None", 0, "invoke")
    /\ UNCHANGED <<client, config_vars, store_vars, chunk_vars>>

\* the caller has the result of the operation and is ready for the next one
Done(c) ==
    /\ Ended(c)
    /\ ret' = [ret EXCEPT ![c] = NoRet]
    /\ inv' = [inv EXCEPT ![c] = [op |-> "none", a |-> NoArgs,
                                  collections |-> {}, docs |-> NoDocs]]
    /\ cnt' = [cnt EXCEPT ![c] = ZeroCnt]
    /\ ev' = NoEv
    /\ UNCHANGED <<client, stack, config_vars, store_vars, chunk_vars>>

\* ------------------------------------------------------------------- close
\* lines 122-129, called between two operations
Close(c) ==
    /\ Idle(c)
    /\ client[c]
    /\ client' = [client EXCEPT ![c] = FALSE]
    /\ UNCHANGED <<stack, ret, config_vars, store_vars, inv, cnt, ev, chunk_vars>>

\* ---------------------------------------------------------- all_collections
AllCollections(c) == Invoke(c, "all_collections", NoArgs)

all_collections_start(c) ==
    /\ Running(c, "all_collections", "start")
    /\ Prologue(c, [Top(c) EXCEPT !.pc = "loop"],
                Event(c, "all_collections", "none", "None", 0, "none"))
    /\ UNCHANGED <<config_vars, store_vars, inv, cnt, chunk_vars>>

all_collections_loop(c) ==
    /\ Running(c, "all_collections", "loop")
    /\ LET f == Pass(Top(c), "None")
           e(out) == Attempt(c, f, "list_all", "None", out)
       IN  /\ UNCHANGED cnt
           /\ \/ /\ Return(c, collections)
                 /\ ev' = [e("ok") EXCEPT !.fin = "ret"]
                 /\ UNCHANGED client
              \/ Except(c, f, "loop", e("connerr"), "ConnErr")
    /\ UNCHANGED <<config_vars, store_vars, inv, chunk_vars>>

\* ------------------------------------------------------------------- create
Create(c, name) == Invoke(c, "create", [NoArgs EXCEPT !.coll = name])

\* lines 168-172: up to the call of all_collections
create_start(c) ==
    /\ Running(c, "create", "start")
    /\ \E ok \in (IF client[c] THEN {TRUE} ELSE ConnectResults) :
          /\ client' = [client EXCEPT ![c] = ok]
          /\ IF ok
             THEN /\ Call(c, [Top(c) EXCEPT !.pc = "check"], Frame("all_collections", NoArgs))
                  /\ ev' = [Event(c, "create", "none", "None", 0, "none")
                               EXCEPT !.reconn = Connected(c), !.fin = "cont"]
             ELSE /\ Raise(c, "ConnErr")
                  /\ ev' = [Event(c, "create", "none", "None", 0, "none")
                               EXCEPT !.reconn = "fail", !.fin = "exc", !.err = "ConnErr"]
    /\ UNCHANGED <<config_vars, store_vars, inv, cnt, chunk_vars>>

\* line 173: whether the name is taken as listed
Listed(name, listing) == Title(name) \in listing

\* lines 172-177: all_collections is called outside the try-block
create_check(c) ==
    /\ Running(c, "create", "check")
    /\ ret[c].kind # "none"
    /\ LET e == Event(c, "create", "none", "None", 0, "none")
       IN  IF ret[c].kind = "exc"
           THEN /\ Raise(c, ret[c].err)
                /\ ev' = [e EXCEPT !.out = Outcome(ret[c].err), !.fin = "exc", !.err = ret[c].err]
           ELSE IF Listed(Top(c).a.coll, ret[c].val)
           THEN /\ Return(c, FALSE)
                /\ ev' = [e EXCEPT !.fin = "ret"]
           ELSE IF Top(c).x = 0
           THEN /\ Raise(c, "ConnErr")
                /\ ev' = [e EXCEPT !.fin = "exc", !.err = "ConnErr"]
           ELSE /\ Continue(c, [Top(c) EXCEPT !.pc = "loop"])
                /\ ev' = [e EXCEPT !.fin = "cont"]
    /\ UNCHANGED <<client, config_vars, store_vars, inv, cnt, chunk_vars>>

\* lines 177-192: the create call; the store refuses a name it already holds
create_loop(c) ==
    /\ Running(c, "create", "loop")
    /\ LET name == Top(c).a.coll
           f == Pass(Top(c), name)
           e(out) == Attempt(c, f, "create", name, out)
       IN  /\ Count(c, "create")
           /\ \/ /\ StoreName(name) \notin collections
                 /\ collections' = collections \cup {StoreName(name)}
                 /\ \/ /\ Return(c, TRUE)
                       /\ ev' = [e("ok") EXCEPT !.fin = "ret"]
                       /\ UNCHANGED client
                    \/ Except(c, f, "loop", e("connerr"), "ConnErr")
              \/ /\ StoreName(name) \in collections
                 /\ UNCHANGED collections
                 /\ Except(c, f, "loop", e("error"), "StoreError")
              \/ /\ UNCHANGED collections
                 /\ Except(c, f, "loop", e("connerr"), "ConnErr")
    /\ UNCHANGED <<config_vars, docs, nextId, inv, chunk_vars>>

\* ------------------------------------------------------------------- delete
Delete(c, name) == Invoke(c, "delete", [NoArgs EXCEPT !.coll = name])

\* lines 198-202
delete_start(c) ==
    /\ Running(c, "delete", "start")
    /\ \E ok \in (IF client[c] THEN {TRUE} ELSE ConnectResults) :
          /\ client' = [client EXCEPT ![c] = ok]
          /\ IF ok
             THEN /\ Call(c, [Top(c) EXCEPT !.pc = "check"], Frame("all_collections", NoArgs))
                  /\ ev' = [Event(c, "delete", "none", "None", 0, "none")
                               EXCEPT !.reconn = Connected(c), !.fin = "cont"]
             ELSE /\ Raise(c, "ConnErr")
                  /\ ev' = [Event(c, "delete", "none", "None", 0, "none")
                               EXCEPT !.reconn = "fail", !.fin = "exc", !.err = "ConnErr"]
    /\ UNCHANGED <<config_vars, store_vars, inv, cnt, chunk_vars>>

\* lines 202-207
delete_check(c) ==
    /\ Running(c, "delete", "check")
    /\ ret[c].kind # "none"
    /\ LET e == Event(c, "delete", "none", "None", 0, "none")
       IN  IF ret[c].kind = "exc"
           THEN /\ Raise(c, ret[c].err)
                /\ ev' = [e EXCEPT !.out = Outcome(ret[c].err), !.fin = "exc", !.err = ret[c].err]
           ELSE IF ~Listed(Top(c).a.coll, ret[c].val)
           THEN /\ Return(c, FALSE)
                /\ ev' = [e EXCEPT !.fin = "ret"]
           ELSE IF Top(c).x = 0
           THEN /\ Raise(c, "ConnErr")
                /\ ev' = [e EXCEPT !.fin = "exc", !.err = "ConnErr"]
           ELSE /\ Continue(c, [Top(c) EXCEPT !.pc = "loop"])
                /\ ev' = [e EXCEPT !.fin = "cont"]
    /\ UNCHANGED <<client, config_vars, store_vars, inv, cnt, chunk_vars>>

\* the store after it dropped the collection filed under `stored`
DocsWithout(stored) == IF stored = StoreName(DocColl) THEN NoDocs ELSE docs

\* lines 207-219: the delete call; the store drops the collection the name
\* stands for together with its objects, and accepts a name it does not hold
delete_loop(c) ==
    /\ Running(c, "delete", "loop")
    /\ LET name == Top(c).a.coll
           f == Pass(Top(c), name)
           e(out) == Attempt(c, f, "delete", name, out)
       IN  /\ Count(c, "delete")
           /\ \/ /\ collections' = collections \ {StoreName(name)}
                 /\ docs' = IF StoreName(name) \in collections
                            THEN DocsWithout(StoreName(name)) ELSE docs
                 /\ \/ /\ Return(c, TRUE)
                       /\ ev' = [e("ok") EXCEPT !.fin = "ret"]
                       /\ UNCHANGED client
                    \/ Except(c, f, "loop", e("connerr"), "ConnErr")
              \/ /\ UNCHANGED <<collections, docs>>
                 /\ Except(c, f, "loop", e("connerr"), "ConnErr")
    /\ UNCHANGED <<config_vars, nextId, inv, chunk_vars>>

\* ------------------------------------------------------- the object store
\* whether the store holds the collection a document call names
Holds(name) == StoreName(name) \in collections

RECURSIVE Ascending(_)
Ascending(S) ==
    IF S = {} THEN <<>>
    ELSE LET m == CHOOSE i \in S : \A j \in S : i <= j
         IN  <<m>> \o Ascending(S \ {m})

\* the dictionary built from the properties of object id (lines 285-293)
Document(id) ==
    [uuid |-> id, file |-> docs[id].file, title |-> docs[id].title,
     chunk |-> docs[id].chunk, doc_type |-> docs[id].doc_type,
     content |-> docs[id].content]

\* lines 245-258: per listed object its file, title and doc_type
Listing ==
    [id \in DOMAIN docs |->
        [file |-> docs[id].file, title |-> docs[id].title,
         doc_type |-> docs[id].doc_type]]

\* only the first id a listing files under filename
FirstIdOfFile(listing, filename) ==
    LET ids == {id \in DOMAIN listing : listing[id].file = filename}
    IN  IF ids = {} THEN <<>> ELSE <<CHOOSE i \in ids : \A j \in ids : i <= j>>
\* the ids a listing files under filename, in the listing's order
IdsOfFile(listing, filename) ==
    Ascending({id \in DOMAIN listing : listing[id].file = filename})

\* the store when delete_by_id removes nothing
DocsKept(id) == docs
\* the store after delete_by_id(id)
DocsAfterDelete(id) == [i \in DOMAIN docs \ {id} |-> docs[i]]

\* the ids a caller can name: those the store has handed out, and one it
\* never hands out (the store draws a fresh id for every object)
NeverAssigned == MaxIds + 1
Uuids == (1..(nextId - 1)) \cup {NeverAssigned}

\* the store after insert_many(dd): one fresh id per record, in order
DocsAfterInsert(dd) ==
    [i \in DOMAIN docs \cup (nextId..(nextId + Len(dd) - 1)) |->
        IF i \in DOMAIN docs THEN docs[i] ELSE dd[i - nextId + 1]]

\* ----------------------------------------------------------- list_documents
ListDocuments(c) == Invoke(c, "list_documents", [NoArgs EXCEPT !.coll = DocColl])

list_documents_start(c) ==
    /\ Running(c, "list_documents", "start")
    /\ Prologue(c, [Top(c) EXCEPT !.pc = "loop"],
                Event(c, "list_documents", "none", "None", 0, "none"))
    /\ UNCHANGED <<config_vars, store_vars, inv, cnt, chunk_vars>>

\* line 244: `collection = self.client.collections.get(collection)` binds the
\* parameter to the collection object
Rebind(coll) == [coll EXCEPT !.obj = TRUE]

\* lines 242-267: collections.get refuses an argument that is no name; the
\* iteration is the call into the store
list_documents_loop(c) ==
    /\ Running(c, "list_documents", "loop")
    /\ LET f == [Pass(Top(c), Top(c).coll) EXCEPT !.coll = Rebind(@)]
           e(call, out) == Attempt(c, f, call, Top(c).coll, out)
       IN  IF Top(c).coll.obj
           THEN /\ Except(c, f, "loop", e("none", "error"), "InvalidInput")
                /\ UNCHANGED cnt
           ELSE /\ Count(c, "iterate")
                /\ \/ /\ Holds(Top(c).coll.name)
                      /\ Return(c, Listing)
                      /\ ev' = [e("iterate", "ok") EXCEPT !.fin = "ret"]
                      /\ UNCHANGED client
                   \/ /\ ~Holds(Top(c).coll.name)
                      /\ Except(c, f, "loop", e("iterate", "error"), "StoreError")
                   \/ Except(c, f, "loop", e("iterate", "connerr"), "ConnErr")
    /\ UNCHANGED <<config_vars, store_vars, inv, chunk_vars>>

\* ------------------------------------------------------------- get_document
GetDocument(c, id) ==
    Invoke(c, "get_document", [NoArgs EXCEPT !.coll = DocColl, !.uuid = id])

get_document_start(c) ==
    /\ Running(c, "get_document", "start")
    /\ Prologue(c, [Top(c) EXCEPT !.pc = "loop"],
                Event(c, "get_document", "none", "None", 0, "none"))
    /\ UNCHANGED <<config_vars, store_vars, inv, cnt, chunk_vars>>

\* lines 281-283: the objects fetch_objects returns for the filter by id
FetchById(id) == IF id \in DOMAIN docs THEN <<Document(id)>> ELSE <<>>

\* element 0 of the fetched objects, with None taken for an empty result
FirstOrNone(objects) ==
    IF objects = <<>> THEN [ok |-> TRUE, val |-> "None"]
    ELSE [ok |-> TRUE, val |-> objects[1]]
\* line 284: udocs.objects[0], an IndexError on an empty result
First(objects) ==
    IF objects = <<>> THEN [ok |-> FALSE, val |-> "None"]
    ELSE [ok |-> TRUE, val |-> objects[1]]

\* lines 278-302: fetch_objects by id, then element 0 of what came back
get_document_loop(c) ==
    /\ Running(c, "get_document", "loop")
    /\ LET f == Pass(Top(c), Top(c).a.uuid)
           id == f.a.uuid
           e(out) == Attempt(c, f, "fetch", id, out)
           p == First(FetchById(id))
       IN  /\ UNCHANGED cnt
           /\ \/ /\ Holds(f.coll.name)
                 /\ p.ok
                 /\ Return(c, p.val)
                 /\ ev' = [e("ok") EXCEPT !.fin = "ret"]
                 /\ UNCHANGED client
              \/ /\ Holds(f.coll.name)
                 /\ ~p.ok
                 /\ Except(c, f, "loop", e("error"), "IndexError")
              \/ /\ ~Holds(f.coll.name)
                 /\ Except(c, f, "loop", e("error"), "StoreError")
              \/ Except(c, f, "loop", e("connerr"), "ConnErr")
    /\ UNCHANGED <<config_vars, store_vars, inv, chunk_vars>>

\* ------------------------------------------------------------ get_documents
\* the ways get_documents is called: by id, by query, by filename, id and query
GetInputs ==
    { [NoArgs EXCEPT !.coll = DocColl, !.uuid = 1],
      [NoArgs EXCEPT !.coll = DocColl, !.query = "q"],
      [NoArgs EXCEPT !.coll = DocColl, !.filename = "f"],
      [NoArgs EXCEPT !.coll = DocColl, !.uuid = 1, !.query = "q"],
      [NoArgs EXCEPT !.coll = DocColl] }

GetDocuments(c, a) == Invoke(c, "get_documents", a)

\* the part of get_documents that runs after part `done` (lines 312, 315, 344)
PartAfter(a, done) ==
    IF done = "start" /\ a.uuid # 0 THEN "by_uuid"
    ELSE IF done \in {"start", "by_uuid"} /\ a.query # "" THEN "by_query"
    ELSE IF done \in {"start", "by_uuid", "by_query"} /\ a.filename # "" THEN "by_file"
    ELSE "return"

\* get_documents goes on after part `done` with frame f, or returns dd
GoOn(c, f, done) ==
    IF PartAfter(f.a, done) = "return"
    THEN Return(c, f.r)
    ELSE Continue(c, [f EXCEPT !.pc = PartAfter(f.a, done)])

Fin(a, done) == IF PartAfter(a, done) = "return" THEN "ret" ELSE "cont"

\* lines 308-311
get_documents_start(c) ==
    /\ Running(c, "get_documents", "start")
    /\ LET f == [Top(c) EXCEPT !.r = <<>>]
           e == Event(c, "get_documents", "none", "None", 0, "none")
       IN  \E ok \in (IF client[c] THEN {TRUE} ELSE ConnectResults) :
              /\ client' = [client EXCEPT ![c] = ok]
              /\ IF ok
                 THEN /\ GoOn(c, f, "start")
                      /\ ev' = [e EXCEPT !.reconn = Connected(c),
                                         !.fin = Fin(f.a, "start")]
                 ELSE /\ Raise(c, "ConnErr")
                      /\ ev' = [e EXCEPT !.reconn = "fail", !.fin = "exc", !.err = "ConnErr"]
    /\ UNCHANGED <<config_vars, store_vars, inv, cnt, chunk_vars>>

\* lines 312-314
get_documents_by_uuid(c) ==
    /\ Running(c, "get_documents", "by_uuid")
    /\ ret[c].kind = "none"
    /\ Call(c, [Top(c) EXCEPT !.pc = "got_uuid"],
            Frame("get_document", [NoArgs EXCEPT !.coll = Top(c).a.coll,
                                                 !.uuid = Top(c).a.uuid]))
    /\ ev' = [Event(c, "get_documents", "none", "None", 0, "none") EXCEPT !.fin = "cont"]
    /\ UNCHANGED <<client, config_vars, store_vars, inv, cnt, chunk_vars>>

\* line 314: get_document came back, outside any try-block
get_documents_got_uuid(c) ==
    /\ Running(c, "get_documents", "got_uuid")
    /\ ret[c].kind # "none"
    /\ LET f == [Top(c) EXCEPT !.r = <<ret[c].val>>]
           e == Event(c, "get_documents", "none", "None", 0, "none")
       IN  IF ret[c].kind = "exc"
           THEN /\ Raise(c, ret[c].err)
                /\ ev' = [e EXCEPT !.out = Outcome(ret[c].err), !.fin = "exc", !.err = ret[c].err]
           ELSE /\ GoOn(c, f, "by_uuid")
                /\ ev' = [e EXCEPT !.fin = Fin(f.a, "by_uuid")]
    /\ UNCHANGED <<client, config_vars, store_vars, inv, cnt, chunk_vars>>

\* what near_text hands back: the store ranks; here all objects in id order
Ranked == [i \in 1..Cardinality(DOMAIN docs) |-> Document(Ascending(DOMAIN docs)[i])]

\* lines 315-343
get_documents_by_query(c) ==
    /\ Running(c, "get_documents", "by_query")
    /\ LET f == Pass(Top(c), Top(c).a.query)
           e(out) == Attempt(c, f, "near_text", f.a.query, out)
       IN  \/ /\ Holds(f.coll.name)
              /\ GoOn(c, [f EXCEPT !.r = @ \o Ranked], "by_query")
              /\ ev' = [e("ok") EXCEPT !.fin = Fin(f.a, "by_query")]
              /\ UNCHANGED client
           \/ /\ ~Holds(f.coll.name)
              /\ Except(c, f, "by_query", e("error"), "StoreError")
           \/ Except(c, f, "by_query", e("connerr"), "ConnErr")
    /\ UNCHANGED <<config_vars, store_vars, inv, cnt, chunk_vars>>

\* lines 344-346
get_documents_by_file(c) ==
    /\ Running(c, "get_documents", "by_file")
    /\ Call(c, [Top(c) EXCEPT !.pc = "listed"],
            Frame("list_documents", [NoArgs EXCEPT !.coll = Top(c).a.coll]))
    /\ ev' = [Event(c, "get_documents", "none", "None", 0, "none") EXCEPT !.fin = "cont"]
    /\ UNCHANGED <<client, config_vars, store_vars, inv, cnt, chunk_vars>>

\* lines 346-351: list_documents or one get_document of the file came back
get_documents_listed(c) ==
    /\ Running(c, "get_documents", "listed")
    /\ ret[c].kind # "none"
    /\ LET f == Top(c)
           e == Event(c, "get_documents", "none", "None", 0, "none")
       IN  IF ret[c].kind = "exc"
           THEN /\ Raise(c, ret[c].err)
                /\ ev' = [e EXCEPT !.out = Outcome(ret[c].err), !.fin = "exc", !.err = ret[c].err]
           ELSE LET todo == IdsOfFile(ret[c].val, f.a.filename)
                IN  /\ IF todo = <<>>
                       THEN Return(c, f.r)
                       ELSE Call(c, [f EXCEPT !.pc = "got", !.todo = todo],
                                 Frame("get_document",
                                       [NoArgs EXCEPT !.coll = f.a.coll, !.uuid = Head(todo)]))
                    /\ ev' = [e EXCEPT !.fin = IF todo = <<>> THEN "ret" ELSE "cont"]
    /\ UNCHANGED <<client, config_vars, store_vars, inv, cnt, chunk_vars>>

\* line 350
get_documents_got(c) ==
    /\ Running(c, "get_documents", "got")
    /\ ret[c].kind # "none"
    /\ LET f == Top(c)
           e == Event(c, "get_documents", "none", "None", 0, "none")
       IN  IF ret[c].kind = "exc"
           THEN /\ Raise(c, ret[c].err)
                /\ ev' = [e EXCEPT !.out = Outcome(ret[c].err), !.fin = "exc", !.err = ret[c].err]
           ELSE LET g == [f EXCEPT !.r = Append(@, ret[c].val), !.todo = Tail(@)]
                IN  /\ IF g.todo = <<>>
                       THEN Return(c, g.r)
                       ELSE Call(c, g, Frame("get_document",
                                [NoArgs EXCEPT !.coll = f.a.coll, !.uuid = Head(g.todo)]))
                    /\ ev' = [e EXCEPT !.fin = IF g.todo = <<>> THEN "ret" ELSE "cont"]
    /\ UNCHANGED <<client, config_vars, store_vars, inv, cnt, chunk_vars>>

\* ---------------------------------------------------------- delete_document
DeleteInputs ==
    { <<id, "">> : id \in {0} \cup Uuids } \cup { <<0, fn>> : fn \in Files }
        \cup { <<NeverAssigned, "f">> }

DeleteDocument(c, id, filename) ==
    Invoke(c, "delete_document",
           [NoArgs EXCEPT !.coll = DocColl, !.uuid = id, !.filename = filename])

delete_document_start(c) ==
    /\ Running(c, "delete_document", "start")
    /\ Prologue(c, [Top(c) EXCEPT !.pc = "loop"],
                Event(c, "delete_document", "none", "None", 0, "none"))
    /\ UNCHANGED <<config_vars, store_vars, inv, cnt, chunk_vars>>

\* one delete_by_id(id) of the try-block of delete_document, issued from frame
\* f; g is the frame the loop goes on with, r set to the call's result. The
\* store may have deleted the object although the call ends in a
\* connectivity error.
DeleteById(c, f, id, g, last) ==
    LET e(out) == Attempt(c, f, "delete_by_id", id, out)
    IN  /\ Count(c, "delete_by_id")
        /\ \/ /\ docs' = DocsAfterDelete(id)
              /\ \/ /\ IF last THEN Return(c, id \in DOMAIN docs)
                               ELSE Continue(c, [g EXCEPT !.r = id \in DOMAIN docs])
                    /\ ev' = [e("ok") EXCEPT !.fin = IF last THEN "ret" ELSE "cont"]
                    /\ UNCHANGED client
                 \/ Except(c, f, "loop", e("connerr"), "ConnErr")
           \/ /\ UNCHANGED docs
              /\ Except(c, f, "loop", e("connerr"), "ConnErr")

\* lines 362-378: the head of the try-block
delete_document_loop(c) ==
    /\ Running(c, "delete_document", "loop")
    /\ LET f == Pass(Top(c), Top(c).a.uuid)
           e(out) == Attempt(c, f, "none", "None", out)
       IN  IF f.a.uuid # 0
           THEN DeleteById(c, f, f.a.uuid, f, TRUE)
           ELSE /\ UNCHANGED <<cnt, docs>>
                /\ IF f.a.filename # ""
                   THEN /\ Call(c, [f EXCEPT !.pc = "listed"],
                                Frame("list_documents", [NoArgs EXCEPT !.coll = f.a.coll]))
                        /\ ev' = [e("none") EXCEPT !.fin = "cont"]
                        /\ UNCHANGED client
                   ELSE Except(c, f, "loop", e("error"), "ValueError")
    /\ UNCHANGED <<config_vars, collections, nextId, inv, chunk_vars>>

\* lines 370-374: list_documents came back inside the try-block
delete_document_listed(c) ==
    /\ Running(c, "delete_document", "listed")
    /\ ret[c].kind # "none"
    /\ LET f == Top(c)
           e(out) == Event(c, "delete_document", "none", "None", f.n, out)
       IN  IF ret[c].kind = "exc"
           THEN Except(c, f, "loop", e(Outcome(ret[c].err)),
                       ret[c].err)
           ELSE LET todo == IdsOfFile(ret[c].val, f.a.filename)
                IN  /\ IF todo = <<>>
                       THEN Return(c, "None")
                       ELSE Continue(c, [f EXCEPT !.pc = "deleting", !.todo = todo])
                    /\ ev' = [e("none") EXCEPT !.fin = IF todo = <<>> THEN "ret" ELSE "cont"]
                    /\ UNCHANGED client
    /\ UNCHANGED <<config_vars, store_vars, inv, cnt, chunk_vars>>

\* lines 374-376: the next id of the file
delete_document_deleting(c) ==
    /\ Running(c, "delete_document", "deleting")
    /\ LET f == Top(c)
       IN  DeleteById(c, f, Head(f.todo), [f EXCEPT !.todo = Tail(@)],
                      Len(f.todo) = 1)
    /\ UNCHANGED <<config_vars, collections, nextId, inv, chunk_vars>>

\* ------------------------------------------------------------- add_document
Short == <<"b">>
Long == [i \in 1..(2 * MaxChunk - 1) |-> IF i % 2 = 1 THEN "a" ELSE LF]
Fragment == <<"a">>

Doc(filename, chunk, content) ==
    [NoArgs EXCEPT !.coll = DocColl, !.title = "T", !.doc_type = "TXT",
                   !.filename = filename, !.chunk = chunk, !.content = content]

\* the documents handed to add_document
AddInputs ==
    { Doc("f", <<>>, Short), Doc("f", <<>>, Long), Doc("g", <<>>, Short),
      Doc("f", Fragment, Short), Doc("f", <<>>, <<>>),
      [Doc("f", <<>>, Short) EXCEPT !.title = ""],
      [Doc("f", <<>>, Short) EXCEPT !.doc_type = ""],
      Doc("", <<>>, Short) }

\* lines 403-408
Content(a) == IF a.content = <<>> THEN a.chunk ELSE a.content
\* the checks without the one of line 407
HasText(a) == ~(a.chunk = <<>> /\ a.content = <<>>)
Valid(a) ==
    /\ ~(a.chunk = <<>> /\ a.content = <<>>)
    /\ a.title # "" /\ a.doc_type # "" /\ a.filename # "" /\ Content(a) # <<>>

\* lines 416-419 with the suffix also on a document of one chunk
SectionAlways(title, ci, total_chunks) ==
    [base |-> title, sec |-> ci, of |-> total_chunks]
\* lines 416-419: the title of section ci of total_chunks
Section(title, ci, total_chunks) ==
    IF total_chunks > 1 THEN [base |-> title, sec |-> ci, of |-> total_chunks]
    ELSE [base |-> title, sec |-> 0, of |-> 0]

\* lines 409-436: the records of one document (an absent chunk is <<>>)
Records(a) ==
    IF a.chunk = <<>> /\ max_chunk_size > 0
    THEN LET chunks == break_up_content(Content(a), max_chunk_size)
         IN  [ci \in 1..Len(chunks) |->
                [title |-> Section(a.title, ci, Len(chunks)), chunk |-> chunks[ci],
                 doc_type |-> a.doc_type, file |-> a.filename, content |-> Content(a)]]
    ELSE << [title |-> Section(a.title, 0, 0), chunk |-> a.chunk,
             doc_type |-> a.doc_type, file |-> a.filename, content |-> Content(a)] >>

\* the store has ids left for the records of a
Room(a) == Valid(a) => nextId + Len(Records(a)) - 1 <= MaxIds

AddDocument(c, a) ==
    /\ Room(a)
    /\ Invoke(c, "add_document", a)

\* lines 401-439
add_document_start(c) ==
    /\ Running(c, "add_document", "start")
    /\ LET f == Top(c)
           e == Event(c, "add_document", "none", "None", 0, "none")
       IN  IF ~Valid(f.a)
           THEN /\ Raise(c, "ValueError")
                /\ ev' = [e EXCEPT !.out = "error", !.fin = "exc", !.err = "ValueError"]
                /\ UNCHANGED client
           ELSE Prologue(c, [f EXCEPT !.pc = "loop", !.dd = Records(f.a)], e)
    /\ UNCHANGED <<config_vars, store_vars, inv, cnt, chunk_vars>>

\* lines 440-453: insert_many; the store may have stored the batch although
\* the call ends in a connectivity error (a store with no id left for the
\* batch stores nothing)
add_document_loop(c) ==
    /\ Running(c, "add_document", "loop")
    /\ LET f == Pass(Top(c), Top(c).dd)
           e(out) == Attempt(c, f, "insert_many", f.dd, out)
           ids == Ascending(nextId..(nextId + Len(f.dd) - 1))
       IN  /\ Count(c, "insert_many")
           /\ \/ /\ Holds(f.coll.name)
                 /\ nextId + Len(f.dd) - 1 <= MaxIds
                 /\ docs' = DocsAfterInsert(f.dd)
                 /\ nextId' = nextId + Len(f.dd)
                 /\ \/ /\ Return(c, ids)
                       /\ ev' = [e("ok") EXCEPT !.fin = "ret"]
                       /\ UNCHANGED client
                    \/ Except(c, f, "loop", e("connerr"), "ConnErr")
              \/ /\ ~Holds(f.coll.name)
                 /\ UNCHANGED <<docs, nextId>>
                 /\ Except(c, f, "loop", e("error"), "StoreError")
              \/ /\ UNCHANGED <<docs, nextId>>
                 /\ Except(c, f, "loop", e("connerr"), "ConnErr")
    /\ UNCHANGED <<config_vars, collections, inv, chunk_vars>>

\* ---------------------------------------------------------- update_document
UpdateInputs == { Doc("g", <<>>, Short), Doc("g", <<>>, <<>>) }

UpdateDocument(c, id, a) ==
    /\ Room(a)
    /\ Invoke(c, "update_document", [a EXCEPT !.uuid = id])

update_document_start(c) ==
    /\ Running(c, "update_document", "start")
    /\ Prologue(c, [Top(c) EXCEPT !.pc = "loop"],
                Event(c, "update_document", "none", "None", 0, "none"))
    /\ UNCHANGED <<config_vars, store_vars, inv, cnt, chunk_vars>>

\* line 466: the try-block starts with delete_document(collection, uuid)
update_document_loop(c) ==
    /\ Running(c, "update_document", "loop")
    /\ LET f == Pass(Top(c), "None")
       IN  /\ Call(c, [f EXCEPT !.pc = "deleted"],
                   Frame("delete_document",
                         [NoArgs EXCEPT !.coll = f.a.coll, !.uuid = f.a.uuid]))
           /\ ev' = [Event(c, "update_document", "none", "None", f.n, "none")
                        EXCEPT !.fin = "cont"]
    /\ UNCHANGED <<client, config_vars, store_vars, inv, cnt, chunk_vars>>

\* lines 466-467: delete_document came back; add_document is next
update_document_deleted(c) ==
    /\ Running(c, "update_document", "deleted")
    /\ ret[c].kind # "none"
    /\ LET f == Top(c)
           e(out) == Event(c, "update_document", "none", "None", f.n, out)
       IN  IF ret[c].kind = "exc"
           THEN Except(c, f, "loop",
                       e(Outcome(ret[c].err)), ret[c].err)
           ELSE /\ Call(c, [f EXCEPT !.pc = "added"],
                        Frame("add_document", [f.a EXCEPT !.uuid = 0]))
                /\ ev' = [e("none") EXCEPT !.fin = "cont"]
                /\ UNCHANGED client
    /\ UNCHANGED <<config_vars, store_vars, inv, cnt, chunk_vars>>

\* lines 467-477: add_document came back
update_document_added(c) ==
    /\ Running(c, "update_document", "added")
    /\ ret[c].kind # "none"
    /\ LET f == Top(c)
           e(out) == Event(c, "update_document", "none", "None", f.n, out)
       IN  IF ret[c].kind = "exc"
           THEN Except(c, f, "loop",
                       e(Outcome(ret[c].err)), ret[c].err)
           ELSE /\ Return(c, ret[c].val)
                /\ ev' = [e("ok") EXCEPT !.fin = "ret"]
                /\ UNCHANGED client
    /\ UNCHANGED <<config_vars, store_vars, inv, cnt, chunk_vars>>

\* ----------------------------------------------------------------- add_file
\* str.lower() on the letters that occur in the filenames
LowerChar(ch) ==
    CASE ch = "P" -> "p" [] ch = "D" -> "d" [] ch = "F" -> "f"
      [] ch = "T" -> "t" [] ch = "X" -> "x" [] ch = "H" -> "h"
      [] ch = "M" -> "m" [] ch = "L" -> "l" [] OTHER -> ch

RECURSIVE LowerFrom(_, _)
LowerFrom(s, i) ==
    IF i > Len(s) THEN "" ELSE LowerChar(SubSeq(s, i, i)) \o LowerFrom(s, i + 1)

lower(s) == LowerFrom(s, 1)
startswith(s, prefix) ==
    Len(s) >= Len(prefix) /\ SubSeq(s, 1, Len(prefix)) = prefix
endswith(s, suffix) ==
    Len(s) >= Len(suffix) /\ SubSeq(s, Len(s) - Len(suffix) + 1, Len(s)) = suffix

\* the extensions add_file knows, in the order it tests them, with the
\* method each selects
Formats ==
    << [ext |-> ".pdf", method |-> "add_pdf"],
       [ext |-> ".docx", method |-> "add_docx"],
       [ext |-> ".txt", method |-> "add_txt"],
       [ext |-> ".html", method |-> "add_html"],
       [ext |-> ".json", method |-> "add_json"] >>

\* lines 484-506 with the extension compared as it is written
IngestionExact(filename) ==
    IF startswith(filename, "http") THEN "add_url"
    ELSE LET hits == {i \in 1..Len(Formats) : endswith(filename, Formats[i].ext)}
         IN  IF hits = {} THEN "unsupported"
             ELSE Formats[CHOOSE i \in hits : \A j \in hits : i <= j].method
\* lines 484-506: the method add_file hands the file to
Ingestion(filename) ==
    IF startswith(filename, "http") THEN "add_url"
    ELSE LET hits == {i \in 1..Len(Formats) :
                         endswith(lower(filename), Formats[i].ext)}
         IN  IF hits = {} THEN "unsupported"
             ELSE Formats[CHOOSE i \in hits : \A j \in hits : i <= j].method

\* the filenames handed to add_file
Filenames ==
    {"a.pdf", "a.PDF", "a.docx", "a.txt", "a.Txt", "a.html", "a.json",
     "a.csv", "pdf", "a.pdf.bak", "http://u", "http.txt", "HTTP://u"}

\* Ingestion tabulated for the filenames of the model
IngestionOf == [filename \in Filenames |-> Ingestion(filename)]

\* the files at tmp_file: one every reader gets something out of, one of two
\* PDF pages whose HTML title is empty, an empty one, and none
TmpFiles ==
    { [NoFile EXCEPT !.exists = TRUE, !.text = Short, !.pages = << <<"a">> >>,
                     !.has_title = TRUE, !.title_string = "H",
                     !.paragraphs = << <<"a">>, <<"b">> >>],
      [NoFile EXCEPT !.exists = TRUE, !.text = Short,
                     !.pages = << <<"a">>, <<>> >>, !.has_title = TRUE],
      [NoFile EXCEPT !.exists = TRUE],
      NoFile }

\* the store has ids left for the records of the file
RoomForFile(filename, tmp_file) ==
    nextId + (IF IngestionOf[filename] = "add_pdf" /\ Len(tmp_file.pages) > 1
              THEN Len(tmp_file.pages) ELSE 1) - 1 <= MaxIds

AddFile(c, filename, tmp_file) ==
    /\ RoomForFile(filename, tmp_file)
    /\ Invoke(c, "add_file", [NoArgs EXCEPT !.coll = DocColl, !.title = "T",
                                            !.filename = filename,
                                            !.tmp_file = tmp_file])

\* lines 484-506
add_file_start(c) ==
    /\ Running(c, "add_file", "start")
    /\ LET f == Top(c)
           method == IngestionOf[f.a.filename]
           e == [Event(c, "add_file", "none", "None", 0, "none") EXCEPT !.arg = method]
       IN  IF method = "unsupported"
           THEN /\ Raise(c, "ValueError")
                /\ ev' = [e EXCEPT !.out = "error", !.fin = "exc", !.err = "ValueError"]
           ELSE /\ Call(c, [f EXCEPT !.pc = "called"], Frame(method, f.a))
                /\ ev' = [e EXCEPT !.fin = "cont"]
    /\ UNCHANGED <<client, config_vars, store_vars, inv, cnt, chunk_vars>>

\* a method that returns what the method it called returned, outside any
\* try-block: add_file (`return self.add_...`), and the readers after
\* their add_document
Forward(c, op, pc) ==
    /\ Running(c, op, pc)
    /\ ret[c].kind # "none"
    /\ LET e == Event(c, op, "none", "None", 0, "none")
       IN  IF ret[c].kind = "exc"
           THEN /\ Raise(c, ret[c].err)
                /\ ev' = [e EXCEPT !.out = Outcome(ret[c].err), !.fin = "exc",
                                   !.err = ret[c].err]
           ELSE /\ Return(c, ret[c].val)
                /\ ev' = [e EXCEPT !.fin = "ret"]
    /\ UNCHANGED <<client, config_vars, store_vars, inv, cnt, chunk_vars>>

add_file_called(c) == Forward(c, "add_file", "called")

\* a reader up to its add_document: the file is opened and read, `text` is
\* what the reader made of it
Read(c, op, title, doc_type, text) ==
    /\ Running(c, op, "start")
    /\ LET f == Top(c)
           e == Event(c, op, "none", "None", 0, "none")
       IN  IF ~f.a.tmp_file.exists
           THEN /\ Raise(c, "OSError")
                /\ ev' = [e EXCEPT !.out = "error", !.fin = "exc", !.err = "OSError"]
           ELSE /\ Call(c, [f EXCEPT !.pc = "added"],
                        Frame("add_document",
                              [NoArgs EXCEPT !.coll = f.a.coll, !.title = title,
                                             !.doc_type = doc_type,
                                             !.filename = f.a.filename,
                                             !.content = text]))
                /\ ev' = [e EXCEPT !.fin = "cont"]
    /\ UNCHANGED <<client, config_vars, store_vars, inv, cnt, chunk_vars>>

\* lines 534-542
add_docx_start(c) ==
    /\ stack[c] # <<>>
    /\ Read(c, "add_docx", Top(c).a.title, "DOCX", Top(c).a.tmp_file.text)
add_docx_added(c) == Forward(c, "add_docx", "added")

\* lines 544-552
add_txt_start(c) ==
    /\ stack[c] # <<>>
    /\ Read(c, "add_txt", Top(c).a.title, "TXT", Top(c).a.tmp_file.text)
add_txt_added(c) == Forward(c, "add_txt", "added")

\* lines 568-576
add_json_start(c) ==
    /\ stack[c] # <<>>
    /\ Read(c, "add_json", Top(c).a.title, "JSON", Top(c).a.tmp_file.text)
add_json_added(c) == Forward(c, "add_json", "added")

\* '\n\n'.join(paragraphs)
RECURSIVE Joined(_)
Joined(paragraphs) ==
    IF paragraphs = <<>> THEN <<>>
    ELSE IF Len(paragraphs) = 1 THEN Head(paragraphs)
    ELSE Head(paragraphs) \o <<LF, LF>> \o Joined(Tail(paragraphs))

\* line 564: the text made of an HTML file; the two headings are one element
\* each, the title another
WebsiteText(title, paragraphs) ==
    <<"Document Title: ", title, LF, "Document Content:", LF>> \o Joined(paragraphs)

\* lines 554-566: the title argument is replaced by the title of the file;
\* soup.title is None for a file without title tag
add_html_start(c) ==
    /\ stack[c] # <<>>
    /\ LET tmp == Top(c).a.tmp_file
       IN  IF tmp.exists /\ ~tmp.has_title
           THEN /\ Running(c, "add_html", "start")
                /\ Raise(c, "AttributeError")
                /\ ev' = [Event(c, "add_html", "none", "None", 0, "error")
                             EXCEPT !.fin = "exc", !.err = "AttributeError"]
                /\ UNCHANGED <<client, config_vars, store_vars, inv, cnt, chunk_vars>>
           ELSE Read(c, "add_html", tmp.title_string, "HTML",
                     WebsiteText(tmp.title_string, tmp.paragraphs))
add_html_added(c) == Forward(c, "add_html", "added")

\* line 530-531: one add_document per page
Page(f, number, text) ==
    Frame("add_document",
          [NoArgs EXCEPT !.coll = f.a.coll,
                         !.title = f.a.title \o " - Page " \o ToString(number),
                         !.doc_type = "PDF", !.filename = f.a.filename,
                         !.content = text \o <<LF>>])

\* lines 517-531: the file is read and its first page added; without a page
\* `return r` finds r unbound
add_pdf_start(c) ==
    /\ Running(c, "add_pdf", "start")
    /\ LET f == Top(c)
           e == Event(c, "add_pdf", "none", "None", 0, "none")
           pages == f.a.tmp_file.pages
       IN  IF ~f.a.tmp_file.exists
           THEN /\ Raise(c, "OSError")
                /\ ev' = [e EXCEPT !.out = "error", !.fin = "exc", !.err = "OSError"]
           ELSE IF pages = <<>>
           THEN /\ Raise(c, "UnboundLocalError")
                /\ ev' = [e EXCEPT !.out = "error", !.fin = "exc",
                                   !.err = "UnboundLocalError"]
           ELSE /\ Call(c, [f EXCEPT !.pc = "page", !.todo = Tail(pages)],
                        Page(f, 1, Head(pages)))
                /\ ev' = [e EXCEPT !.fin = "cont"]
    /\ UNCHANGED <<client, config_vars, store_vars, inv, cnt, chunk_vars>>

\* lines 527-532: the add_document of a page came back
add_pdf_page(c) ==
    /\ Running(c, "add_pdf", "page")
    /\ ret[c].kind # "none"
    /\ LET f == Top(c)
           e == Event(c, "add_pdf", "none", "None", 0, "none")
           number == Len(f.a.tmp_file.pages) - Len(f.todo) + 1
       IN  IF ret[c].kind = "exc"
           THEN /\ Raise(c, ret[c].err)
                /\ ev' = [e EXCEPT !.out = Outcome(ret[c].err), !.fin = "exc",
                                   !.err = ret[c].err]
           ELSE IF f.todo = <<>>
           THEN /\ Return(c, ret[c].val)
                /\ ev' = [e EXCEPT !.fin = "ret"]
           ELSE /\ Call(c, [f EXCEPT !.todo = Tail(@)], Page(f, number, Head(f.todo)))
                /\ ev' = [e EXCEPT !.fin = "cont"]
    /\ UNCHANGED <<client, config_vars, store_vars, inv, cnt, chunk_vars>>

\* ------------------------------------------------------------------ add_url
\* the first position of `sep` in s, 0 when there is none
RECURSIVE Find(_, _, _)
Find(s, sep, i) ==
    IF i > Len(s) THEN 0
    ELSE IF SubSeq(s, i, i) = sep THEN i
    ELSE Find(s, sep, i + 1)

\* lines 635-638: header.split(";")[0] when the header holds a ";"
ContentType(header) ==
    IF Find(header, ";", 1) # 0 THEN SubSeq(header, 1, Find(header, ";", 1) - 1)
    ELSE header

\* lines 639-647: the content types with a handler
TextTypes == {"text/plain", "text/csv", "text/xml", "application/json", "application/xml"}

\* what session.get(url) may come back with; reached = FALSE when it raised
NoResponse ==
    [reached |-> FALSE, status_code |-> 0, headers |-> [h \in {} |-> ""],
     text |-> <<>>, has_title |-> FALSE, title_string |-> "", paragraphs |-> <<>>]
Header(value) == [h \in {"Content-Type"} |-> value]
Responses ==
    { NoResponse,
      [NoResponse EXCEPT !.reached = TRUE, !.status_code = 200,
                         !.headers = Header("text/plain"), !.text = Short],
      [NoResponse EXCEPT !.reached = TRUE, !.status_code = 200,
                         !.headers = Header("text/plain")],
      [NoResponse EXCEPT !.reached = TRUE, !.status_code = 200,
                         !.headers = Header("text/html; charset=utf-8"),
                         !.has_title = TRUE, !.title_string = "H",
                         !.paragraphs = << <<"a">> >>],
      [NoResponse EXCEPT !.reached = TRUE, !.status_code = 200,
                         !.headers = Header("text/html")],
      [NoResponse EXCEPT !.reached = TRUE, !.status_code = 200,
                         !.headers = Header("application/pdf"), !.text = Short],
      [NoResponse EXCEPT !.reached = TRUE, !.status_code = 200,
                         !.headers = Header("image/png"), !.text = Short],
      [NoResponse EXCEPT !.reached = TRUE, !.status_code = 200, !.text = Short],
      [NoResponse EXCEPT !.reached = TRUE, !.status_code = 404,
                         !.headers = Header("text/html"), !.text = Short] }

\* lines 621-629: extract_text_from_html; the fixed pieces of the text are
\* one element each
extract_text_from_html(url, response) ==
    (IF response.has_title
     THEN <<"Document Title: ", response.title_string, LF>> ELSE <<>>)
    \o <<"Document Source: ", url, LF, "Document Content:", LF>>
    \o Joined(response.paragraphs)

\* lines 600-655: the text extract_from_url returns for the response, or the
\* exception that leaves it: session.get raised, the response has no
\* Content-Type header, or the PDF handler reads `response.read`, which a
\* response does not have
extract_from_url(url, response) ==
    IF ~response.reached THEN [ok |-> FALSE, err |-> "RequestException", val |-> <<>>]
    ELSE IF response.status_code # 200
    THEN [ok |-> TRUE, err |-> "none",
          val |-> <<"Failed to fetch the webpage. Status code: ",
                    ToString(response.status_code)>>]
    ELSE IF "Content-Type" \notin DOMAIN response.headers
    THEN [ok |-> FALSE, err |-> "KeyError", val |-> <<>>]
    ELSE LET content_type == ContentType(response.headers["Content-Type"])
         IN  IF content_type = "application/pdf"
             THEN [ok |-> FALSE, err |-> "AttributeError", val |-> <<>>]
             ELSE IF content_type \in TextTypes
             THEN [ok |-> TRUE, err |-> "none", val |-> response.text]
             ELSE IF content_type = "text/html"
             THEN [ok |-> TRUE, err |-> "none",
                   val |-> extract_text_from_html(url, response)]
             ELSE [ok |-> TRUE, err |-> "none", val |-> <<"Unsupported content type">>]

\* lines 508-515
add_url_start(c) ==
    /\ Running(c, "add_url", "start")
    /\ \E response \in Responses :
          LET f == Top(c)
              e == [Event(c, "add_url", "none", "None", 0, "none")
                       EXCEPT !.arg = response]
              content == extract_from_url(f.a.filename, response)
          IN  IF ~content.ok
              THEN /\ Raise(c, content.err)
                   /\ ev' = [e EXCEPT !.out = "error", !.fin = "exc", !.err = content.err]
              ELSE IF content.val # <<>>
              THEN /\ Call(c, [f EXCEPT !.pc = "added"],
                           Frame("add_document",
                                 [NoArgs EXCEPT !.coll = f.a.coll, !.title = f.a.title,
                                                !.doc_type = "URL",
                                                !.filename = f.a.filename,
                                                !.content = content.val]))
                   /\ ev' = [e EXCEPT !.fin = "cont"]
              ELSE /\ Return(c, "None")
                   /\ ev' = [e EXCEPT !.fin = "ret"]
    /\ UNCHANGED <<client, config_vars, store_vars, inv, cnt, chunk_vars>>
add_url_added(c) == Forward(c, "add_url", "added")

\* ------------------------------------------------- chunker on its own
InitChunk ==
    /\ chunk_text \in TextsUpTo(MaxLen)
    /\ chunk_max \in 1..MaxChunk
    /\ chunk_out = <<>>
    /\ chunk_done = FALSE
    /\ retry = 1
    /\ max_chunk_size = MaxChunk
    /\ InitClients
    /\ InitStore

BreakUp ==
    /\ ~chunk_done
    /\ chunk_out' = break_up_content(chunk_text, chunk_max)
    /\ chunk_done' = TRUE
    /\ UNCHANGED <<chunk_text, chunk_max, config_vars, client, stack, ret,
                   store_vars, inv, cnt, ev>>

NextChunk == BreakUp

SpecChunk == InitChunk /\ [][NextChunk]_vars

\* --------------------------------------------------------------- the client
\* one client, every operation, the collection of the document operations
Next ==
    \E c \in {1} :
        \/ Done(c)
        \/ Close(c)
        \/ AllCollections(c)
        \/ all_collections_start(c)
        \/ all_collections_loop(c)
        \/ Create(c, DocColl)
        \/ create_start(c)
        \/ create_check(c)
        \/ create_loop(c)
        \/ Delete(c, DocColl)
        \/ delete_start(c)
        \/ delete_check(c)
        \/ delete_loop(c)
        \/ ListDocuments(c)
        \/ list_documents_start(c)
        \/ list_documents_loop(c)
        \/ \E id \in Uuids : GetDocument(c, id)
        \/ get_document_start(c)
        \/ get_document_loop(c)
        \/ \E a \in GetInputs : GetDocuments(c, a)
        \/ get_documents_start(c)
        \/ get_documents_by_uuid(c)
        \/ get_documents_got_uuid(c)
        \/ get_documents_by_query(c)
        \/ get_documents_by_file(c)
        \/ get_documents_listed(c)
        \/ get_documents_got(c)
        \/ \E d \in DeleteInputs : DeleteDocument(c, d[1], d[2])
        \/ delete_document_start(c)
        \/ delete_document_loop(c)
        \/ delete_document_listed(c)
        \/ delete_document_deleting(c)
        \/ \E a \in AddInputs : AddDocument(c, a)
        \/ add_document_start(c)
        \/ add_document_loop(c)
        \/ \E id \in {0} \cup Uuids, a \in UpdateInputs : UpdateDocument(c, id, a)
        \/ update_document_start(c)
        \/ update_document_loop(c)
        \/ update_document_deleted(c)
        \/ update_document_added(c)

Spec == Init /\ [][Next]_vars

\* ----------------------------------- one client, collections of any name
NextColl ==
    \E c \in {1} :
        \/ Done(c)
        \/ AllCollections(c)
        \/ all_collections_start(c)
        \/ all_collections_loop(c)
        \/ \E name \in Names : Create(c, name)
        \/ create_start(c)
        \/ create_check(c)
        \/ create_loop(c)
        \/ \E name \in Names : Delete(c, name)
        \/ delete_start(c)
        \/ delete_check(c)
        \/ delete_loop(c)

SpecColl == Init /\ [][NextColl]_vars

\* --------------------------- one client adding files, default chunk size
MAX_CHUNK_SIZE == 256 * 4

InitFile ==
    /\ retry \in 0..MaxRetry
    /\ max_chunk_size = MAX_CHUNK_SIZE
    /\ InitClients
    /\ InitStore
    /\ ChunkerUnused

NextFile ==
    \E c \in {1} :
        \/ Done(c)
        \/ all_collections_start(c)
        \/ all_collections_loop(c)
        \/ Create(c, DocColl)
        \/ create_start(c)
        \/ create_check(c)
        \/ create_loop(c)
        \/ \E filename \in Filenames, tmp_file \in TmpFiles :
              AddFile(c, filename, tmp_file)
        \/ add_file_start(c)
        \/ add_file_called(c)
        \/ add_url_start(c)
        \/ add_url_added(c)
        \/ add_pdf_start(c)
        \/ add_pdf_page(c)
        \/ add_docx_start(c)
        \/ add_docx_added(c)
        \/ add_txt_start(c)
        \/ add_txt_added(c)
        \/ add_html_start(c)
        \/ add_html_added(c)
        \/ add_json_start(c)
        \/ add_json_added(c)
        \/ add_document_start(c)
        \/ add_document_loop(c)

SpecFile == InitFile /\ [][NextFile]_vars

\* ------------------------------------- two clients creating collections
NextRace ==
    \E c \in Clients :
        \/ Done(c)
        \/ all_collections_start(c)
        \/ all_collections_loop(c)
        \/ \E name \in Names : Create(c, name)
        \/ create_start(c)
        \/ create_check(c)
        \/ create_loop(c)

SpecRace == Init /\ [][NextRace]_vars

\* ---------------------------------------------------- retry loops: claims
\* the operations whose loop wraps one call into the store, and that call
LoopCall ==
    [op \in {"all_collections", "create", "delete", "get_document",
             "get_documents", "add_document", "list_documents"} |->
        CASE op = "all_collections" -> "list_all"
          [] op = "create" -> "create"
          [] op = "delete" -> "delete"
          [] op = "get_document" -> "fetch"
          [] op = "get_documents" -> "near_text"
          [] op = "add_document" -> "insert_many"
          [] op = "list_documents" -> "iterate"]

\* the last step issued the single store call of its operation
\* (delete_document: the call of the delete by id)
SingleCallStep ==
    \/ ev.op \in DOMAIN LoopCall \ {"list_documents"} /\ ev.call = LoopCall[ev.op]
    \/ ev.op = "delete_document" /\ ev.call = "delete_by_id" /\ ev.first # 0

\* C1: with budget R >= 1, one invocation of an operation that wraps one
\* store call issues that call at most R times, and when the R-th attempt
\* fails with a connectivity error the invocation raises the connection
\* error instead of trying again.
C1_AtMostRAttempts ==
    (retry >= 1 /\ SingleCallStep) =>
        /\ ev.n <= retry
        /\ \A i \in 1..Len(stack[ev.c]) : stack[ev.c][i].n <= retry
        /\ (ev.n = retry /\ ev.out = "connerr") =>
               /\ ev.fin = "exc"
               /\ ev.err = "ConnErr"
               /\ ret[ev.c].kind = "exc"
               /\ ret[ev.c].err = "ConnErr"

\* C1 witness: add_document's insert failed R = 2 times, reconnecting in
\* between, and the invocation ended with the connection error
C1_Witness ==
    /\ retry = 2
    /\ ev.op = "add_document" /\ ev.call = "insert_many"
    /\ ev.n = retry /\ ev.out = "connerr" /\ ev.reconn = "ok"
    /\ Ended(ev.c) /\ ret[ev.c].err = "ConnErr"

\* the last step saw a method called inside a try-block come back with the
\* connection error
InnerExhausted ==
    /\ ev.op \in {"update_document", "delete_document"}
    /\ ev.call = "none"
    /\ ev.out = "connerr"

\* C2: a composite operation whose inner operation raised the connection
\* error surfaces it without running the inner operation again, so one
\* update_document issues at most R delete-by-id and at most R insert calls.
C2_ExhaustionTerminal ==
    retry >= 1 =>
        /\ InnerExhausted => ev.fin = "exc"
        /\ \A c \in Clients :
              inv[c].op = "update_document" =>
                  /\ cnt[c]["delete_by_id"] <= retry
                  /\ cnt[c]["insert_many"] <= retry

\* the last step was pass k >= 2 of the loop of an operation that wraps one
\* store call: every earlier pass failed and was followed by a reconnect
RetryStep ==
    /\ ev.n >= 2
    /\ \/ ev.op \in DOMAIN LoopCall
       \/ ev.op = "delete_document" /\ ev.first # 0

\* C3: after a connectivity failure and a successful reconnect the operation
\* issues the same store call with the same arguments again, and when that
\* attempt succeeds the invocation returns its result without raising.
C3_RetrySameCall ==
    (retry >= 1 /\ RetryStep) =>
        /\ ev.call = (IF ev.op = "delete_document" THEN "delete_by_id" ELSE LoopCall[ev.op])
        /\ ev.arg = ev.first
        /\ ev.out = "ok" => ev.fin \in {"ret", "cont"}

\* C4: a failure that is no connectivity error ends the invocation at once
\* with that error: no reconnect, no further pass of the loop.
C4_OtherErrorsImmediate ==
    ev.out = "error" =>
        /\ ev.err # "ConnErr"
        /\ ev.reconn = "none"
        /\ ev.fin = "exc"
        /\ ret[ev.c].kind = "exc"
        /\ ret[ev.c].err = ev.err
        /\ \A i \in 1..Len(stack[ev.c]) : stack[ev.c][i].op # ev.op

\* C4 witness: delete_document without id and filename raised ValueError on a
\* connected client
C4_Witness ==
    /\ ev.op = "delete_document" /\ ev.out = "error" /\ ev.err = "ValueError"
    /\ Ended(ev.c) /\ ret[ev.c].err = "ValueError"
    /\ client[ev.c]

\* ----------------------------------------------------- collections: claims
\* the invocation of op that client c made last has ended, and not with the
\* connection error
Finished(c, op) ==
    /\ Ended(c)
    /\ inv[c].op = op
    /\ ret[c].err # "ConnErr"

\* C5: create(name) returns False without a create call when the store holds
\* a collection under the name it files `name` as, and otherwise issues the
\* create call and returns True.
C5_CreateIdempotent ==
    Finished(1, "create") =>
        IF StoreName(inv[1].a.coll) \in inv[1].collections
        THEN /\ ret[1].kind = "ret"
             /\ ret[1].val = FALSE
             /\ cnt[1]["create"] = 0
        ELSE ret[1].kind = "ret" =>
             /\ ret[1].val = TRUE
             /\ cnt[1]["create"] >= 1

\* C6: two clients that both found the name absent and each issued one
\* create call for it both end without an error, and the collection exists.
C6_RaceNoCrash ==
    \A name \in Names :
        (/\ Title(name) = StoreName(name)
         /\ \A c \in Clients :
               /\ Finished(c, "create")
               /\ inv[c].a.coll = name
               /\ StoreName(name) \notin inv[c].collections
               /\ cnt[c]["create"] <= 1)
        => /\ StoreName(name) \in collections
           /\ \A c \in Clients : ret[c].kind = "ret"

\* C7: delete(name) of a collection the store does not hold returns False,
\* issues no delete call and changes nothing; of one it holds, it removes
\* exactly that collection and returns True.
C7_DeleteCollection ==
    Finished(1, "delete") =>
        IF StoreName(inv[1].a.coll) \notin inv[1].collections
        THEN /\ ret[1].kind = "ret"
             /\ ret[1].val = FALSE
             /\ cnt[1]["delete"] = 0
             /\ collections = inv[1].collections
        ELSE /\ ret[1].kind = "ret"
             /\ ret[1].val = TRUE
             /\ collections = inv[1].collections \ {StoreName(inv[1].a.coll)}

\* ------------------------------------------------------- chunker: claims
\* the lines of a list of chunks, chunk by chunk
RECURSIVE LinesOfChunks(_)
LinesOfChunks(cs) ==
    IF cs = <<>> THEN <<>> ELSE SplitLines(Head(cs)) \o LinesOfChunks(Tail(cs))

WithSeparators(lines) == Concat([i \in 1..Len(lines) |-> lines[i] \o <<LF>>])

\* C8: the chunks of break_up_content(T, M), read in order, hold exactly the
\* lines of T in their original order; when T was split their concatenation
\* is every line of T followed by one added separator, so no line is lost,
\* duplicated, reordered or cut between two chunks.
C8_ChunksReproduceLines ==
    chunk_done =>
        /\ LinesOfChunks(chunk_out) = SplitLines(chunk_text)
        /\ Len(chunk_text) > chunk_max =>
               Concat(chunk_out) = WithSeparators(SplitLines(chunk_text))
        /\ Len(chunk_text) <= chunk_max => Concat(chunk_out) = chunk_text

\* C8 witness: a text split into several chunks, one of them holding two lines
C8_Witness ==
    /\ chunk_done
    /\ Len(chunk_out) >= 2
    /\ \E i \in 1..Len(chunk_out) : Len(SplitLines(chunk_out[i])) >= 2
    /\ \E i \in 1..Len(chunk_out) : "a" \in {chunk_out[i][k] : k \in 1..Len(chunk_out[i])}

\* C9: for a non-empty text no returned chunk is the empty string.
C9_NoEmptyChunk ==
    (chunk_done /\ chunk_text # <<>>) =>
        \A i \in 1..Len(chunk_out) : chunk_out[i] # <<>>

\* C10: every chunk has length at most M, except a chunk that is one single
\* line which is by itself longer than M.
C10_ChunkWithinMax ==
    chunk_done =>
        \A i \in 1..Len(chunk_out) :
            \/ Len(chunk_out[i]) <= chunk_max
            \/ /\ Len(SplitLines(chunk_out[i])) = 1
               /\ Len(SplitLines(chunk_out[i])[1]) > chunk_max

\* C11: a text no longer than M comes back as exactly one chunk, the text
\* itself, with no separator added.
C11_ShortTextOneChunk ==
    (chunk_done /\ Len(chunk_text) <= chunk_max) => chunk_out = <<chunk_text>>

\* C11 witness: a text of exactly M characters that ends in a line break came
\* back as it is
C11_Witness ==
    /\ chunk_done
    /\ Len(chunk_text) = chunk_max
    /\ chunk_text[Len(chunk_text)] = LF
    /\ chunk_out = <<chunk_text>>

\* ------------------------------------------------------- documents: claims
\* the last step issued the insert_many of an add_document that was given
\* content and no fragment
AutoChunkedInsert ==
    /\ ev.op = "add_document"
    /\ ev.call = "insert_many"
    /\ inv[ev.c].op = "add_document"
    /\ inv[ev.c].a.chunk = <<>>
    /\ inv[ev.c].a.content # <<>>

\* C12: when the chunker returns N fragments for the content, every
\* insert_many of the invocation carries exactly N records in fragment order,
\* record i holding fragment i, the input's file, doc_type and full content,
\* and the title with "Section i of N" if N > 1 and without suffix if N = 1;
\* there is one insert_many per pass of the loop, and an insert that
\* succeeded stored all N records under the ids it returned.
C12_OneRecordPerFragment ==
    AutoChunkedInsert =>
        LET a == inv[ev.c].a
            frags == break_up_content(a.content, max_chunk_size)
            N == Len(frags)
            dd == ev.arg
        IN  /\ Len(dd) = N
            /\ \A i \in 1..N :
                  /\ dd[i].chunk = frags[i]
                  /\ dd[i].file = a.filename
                  /\ dd[i].doc_type = a.doc_type
                  /\ dd[i].content = a.content
                  /\ dd[i].title = IF N > 1
                                   THEN [base |-> a.title, sec |-> i, of |-> N]
                                   ELSE [base |-> a.title, sec |-> 0, of |-> 0]
            /\ cnt[ev.c]["insert_many"] = ev.n
            /\ ev.out = "ok" =>
                  /\ ret[ev.c].kind = "ret"
                  /\ Len(ret[ev.c].val) = N
                  /\ \A i \in 1..N :
                        /\ ret[ev.c].val[i] \in DOMAIN docs
                        /\ docs[ret[ev.c].val[i]] = dd[i]

\* C12 witness: a document of two fragments was stored by one insert_many
C12_Witness ==
    /\ AutoChunkedInsert
    /\ Len(ev.arg) = 2
    /\ ev.arg[2].title.sec = 2
    /\ ev.out = "ok"
    /\ Ended(ev.c)
    /\ Cardinality(DOMAIN docs) = 2

\* arguments of add_document with neither chunk nor content, or with an empty
\* title, doc_type or filename
Missing(a) ==
    \/ a.chunk = <<>> /\ a.content = <<>>
    \/ a.title = ""
    \/ a.doc_type = ""
    \/ a.filename = ""

\* C13: add_document entered with such arguments ends in its first step with
\* the invalid-argument error (ValueError): the method is left, no connect
\* was made, no call reached the store and the store is as it was.
C13_InvalidArgumentsFirst ==
    [][\A c \in Clients :
          (Running(c, "add_document", "start") /\ Missing(Top(c).a)) =>
              /\ stack'[c] = Below(c)
              /\ ret'[c].kind = "exc"
              /\ ret'[c].err = "ValueError"
              /\ ev'.call = "none"
              /\ ev'.reconn = "none"
              /\ UNCHANGED <<client, collections, docs, nextId, cnt>>]_vars

\* C13 witness: add_document with an empty title, called on a client that
\* never connected, ended with ValueError and the client is still unconnected
C13_Witness ==
    /\ inv[1].op = "add_document"
    /\ inv[1].a.title = ""
    /\ inv[1].a.content # <<>>
    /\ Ended(1)
    /\ ret[1].err = "ValueError"
    /\ ~client[1]

\* client c's invocation of op has returned
Returned(c, op) ==
    /\ Ended(c)
    /\ inv[c].op = op
    /\ ret[c].kind = "ret"

\* C14: after update_document(collection, id, ...) returned, the store holds
\* no record under the old id, and every id the update's insert returned is
\* stored with the new title, doc_type, file and content.
C14_UpdateReplaces ==
    \A c \in Clients :
        Returned(c, "update_document") =>
            LET a == inv[c].a
            IN  /\ a.uuid \notin DOMAIN docs
                /\ ret[c].val # <<>>
                /\ \A i \in 1..Len(ret[c].val) :
                      LET id == ret[c].val[i]
                      IN  /\ id # a.uuid
                          /\ id \in DOMAIN docs
                          /\ docs[id].title.base = a.title
                          /\ docs[id].doc_type = a.doc_type
                          /\ docs[id].file = a.filename
                          /\ docs[id].content = Content(a)

\* C14 witness: a stored record of another file was updated
C14_Witness ==
    /\ Returned(1, "update_document")
    /\ inv[1].a.uuid \in DOMAIN inv[1].docs
    /\ inv[1].docs[inv[1].a.uuid].file # inv[1].a.filename
    /\ Cardinality(DOMAIN docs) = 1

\* the ids of the records of file fn in store d
OfFile(d, fn) == {id \in DOMAIN d : d[id].file = fn}

\* C15: after delete_document(collection, filename=F) returned, whether or
\* not passes of its loop failed and were retried, the store holds no record
\* of file F, and every record of another file is stored as it was.
C15_DeleteByFilename ==
    \A c \in Clients :
        (Returned(c, "delete_document") /\ inv[c].a.uuid = 0 /\ inv[c].a.filename # "") =>
            /\ OfFile(docs, inv[c].a.filename) = {}
            /\ \A id \in DOMAIN inv[c].docs \ OfFile(inv[c].docs, inv[c].a.filename) :
                  /\ id \in DOMAIN docs
                  /\ docs[id] = inv[c].docs[id]

\* C15 witness: file "f" had two records; the first pass failed part-way with
\* a connectivity error, the second pass returned
C15_Witness ==
    /\ Returned(1, "delete_document")
    /\ inv[1].a.uuid = 0
    /\ Cardinality(OfFile(inv[1].docs, inv[1].a.filename)) = 2
    /\ ev.op = "delete_document"
    /\ ev.n = 2
    /\ ev.call = "delete_by_id"

\* client c's last invocation was delete_document on the stored collection
\* for an id, or else a filename, that matched no record, and it has ended,
\* not with the connection error
DeletedNothing(c) ==
    /\ Finished(c, "delete_document")
    /\ StoreName(inv[c].a.coll) \in inv[c].collections
    /\ IF inv[c].a.uuid # 0
       THEN inv[c].a.uuid \notin DOMAIN inv[c].docs
       ELSE /\ inv[c].a.filename # ""
            /\ OfFile(inv[c].docs, inv[c].a.filename) = {}

\* C16: delete_document for an id or a filename that matches no record
\* returns normally with a negative or empty result (False, None) and leaves
\* the store as it was, so repeating it leaves the store as one call does.
C16_DeleteAbsentIsNoOp ==
    \A c \in Clients :
        DeletedNothing(c) =>
            /\ ret[c].kind = "ret"
            /\ ret[c].val = (IF inv[c].a.uuid # 0 THEN FALSE ELSE "None")
            /\ docs = inv[c].docs
            /\ collections = inv[c].collections

\* C17: get_document for an id that resolves to no record never returns
\* anything to its caller: it ends with an error, and when the fetch reached
\* the store that error is the failure of reading element 0 of the empty
\* result (IndexError), raised in that step without a further pass.
C17_GetMissingFails ==
    /\ \A c \in Clients :
          (/\ Ended(c)
           /\ inv[c].op = "get_document"
           /\ inv[c].a.uuid \notin DOMAIN inv[c].docs) => ret[c].kind = "exc"
    /\ (/\ ev.op = "get_document"
        /\ ev.call = "fetch"
        /\ ev.arg \notin DOMAIN docs
        /\ ev.out # "connerr") =>
            /\ ev.out = "error"
            /\ ev.fin = "exc"
            /\ (Holds(DocColl) => ev.err = "IndexError")
            /\ ret[ev.c].kind = "exc"
            /\ ret[ev.c].err = ev.err

\* C17 witness: get_document of an id that was stored and then deleted
\* ended with IndexError while other records are stored
C17_Witness ==
    /\ Ended(1)
    /\ inv[1].op = "get_document"
    /\ inv[1].a.uuid < nextId
    /\ inv[1].a.uuid \notin DOMAIN docs
    /\ docs # NoDocs
    /\ ret[1].err = "IndexError"

\* ------------------------------------------------------------ files: claims
\* what the claim has add_file do with each filename of the model: a name
\* that begins with "http" is a URL, otherwise the extension decides,
\* whatever its case
Expected(filename) ==
    CASE filename \in {"http://u", "http.txt"} -> [method |-> "add_url", doc_type |-> "URL"]
      [] filename \in {"a.pdf", "a.PDF"} -> [method |-> "add_pdf", doc_type |-> "PDF"]
      [] filename \in {"a.docx"} -> [method |-> "add_docx", doc_type |-> "DOCX"]
      [] filename \in {"a.txt", "a.Txt"} -> [method |-> "add_txt", doc_type |-> "TXT"]
      [] filename \in {"a.html"} -> [method |-> "add_html", doc_type |-> "HTML"]
      [] filename \in {"a.json"} -> [method |-> "add_json", doc_type |-> "JSON"]
      [] OTHER -> [method |-> "unsupported", doc_type |-> "none"]

\* C18: add_file hands a filename with the URL prefix to add_url and any
\* other filename to the reader of its extension, compared without regard to
\* case; every record the call stores carries the doc_type of that path and
\* the filename; a filename of no known extension ends the call with
\* ValueError before any method ran, no call reached the store and the store
\* is as it was.
C18_DispatchByFilename ==
    inv[1].op = "add_file" =>
        LET filename == inv[1].a.filename
            want == Expected(filename)
        IN  /\ (ev.op = "add_file" /\ ev.arg # "None") => ev.arg = want.method
            /\ Len(stack[1]) >= 2 => stack[1][2].op = want.method
            /\ \A id \in DOMAIN docs \ DOMAIN inv[1].docs :
                  /\ docs[id].doc_type = want.doc_type
                  /\ docs[id].file = filename
            /\ want.method = "unsupported" =>
                  /\ Len(stack[1]) <= 1
                  /\ ev.call = "none"
                  /\ cnt[1] = ZeroCnt
                  /\ docs = inv[1].docs
                  /\ Ended(1) => ret[1].err = "ValueError"

\* C18 witness: add_file of "a.PDF" returned and stored a record of doc_type
\* PDF per page of the file
C18_Witness ==
    /\ Returned(1, "add_file")
    /\ inv[1].a.filename = "a.PDF"
    /\ Cardinality(DOMAIN docs \ DOMAIN inv[1].docs) = 2
    /\ \A id \in DOMAIN docs : docs[id].doc_type = "PDF"

Simple == 1 + retry
PerDelete == 2 + Simple + MaxIds
PerUpdate == 3 + (1 + retry * PerDelete) + Simple

\* the steps frame f still takes itself or in methods it is yet to call,
\* from its next step on
Steps(f) ==
    LET ByUuid == IF f.a.uuid # 0 THEN 2 + Simple ELSE 0
        ByQuery == IF f.a.query # "" THEN f.x ELSE 0
        ByFile == IF f.a.filename # "" THEN 2 + Simple + MaxIds * (Simple + 1) ELSE 0
    IN  CASE f.op \in {"all_collections", "list_documents", "get_document", "add_document"} ->
                 (IF f.pc = "start" THEN 1 + f.x ELSE f.x)
          [] f.op \in {"create", "delete"} ->
                 (CASE f.pc = "start" -> 2 + Simple + f.x
                    [] f.pc = "check" -> 1 + f.x
                    [] OTHER -> f.x)
          [] f.op = "get_documents" ->
                 (CASE f.pc = "start" -> 1 + ByUuid + ByQuery + ByFile
                    [] f.pc = "by_uuid" -> ByUuid + ByQuery + ByFile
                    [] f.pc = "got_uuid" -> 1 + ByQuery + ByFile
                    [] f.pc = "by_query" -> ByQuery + ByFile
                    [] f.pc = "by_file" -> ByFile
                    [] f.pc = "listed" -> 1 + MaxIds * (Simple + 1)
                    [] OTHER -> 1 + (Len(f.todo) - 1) * (Simple + 1))
          [] f.op = "delete_document" ->
                 (CASE f.pc = "start" -> 1 + f.x * PerDelete
                    [] f.pc = "loop" -> f.x * PerDelete
                    [] f.pc = "listed" -> (f.x - 1) * PerDelete + 1 + MaxIds
                    [] OTHER -> (f.x - 1) * PerDelete + Len(f.todo))
          [] f.op = "update_document" ->
                 (CASE f.pc = "start" -> 1 + f.x * PerUpdate
                    [] f.pc = "loop" -> f.x * PerUpdate
                    [] f.pc = "deleted" -> (f.x - 1) * PerUpdate + 2 + Simple
                    [] OTHER -> (f.x - 1) * PerUpdate + 1)

\* the steps the invocation client c runs still takes at most
RECURSIVE StepsFrom(_, _)
StepsFrom(c, i) ==
    IF i > Len(stack[c]) THEN 0 ELSE Steps(stack[c][i]) + StepsFrom(c, i + 1)
StepsLeft(c) == StepsFrom(c, 1)

\* C19: with budget R >= 1 every invocation ends, by returning or by raising,
\* whatever the outcomes of its connects and store calls: a running method
\* always has a step to take, and every step of an invocation lowers a
\* bound on the steps that are left, which is never negative.
C19_EveryInvocationEnds ==
    /\ [](stack[1] # <<>> => ENABLED Next)
    /\ [][(retry >= 1 /\ stack[1] # <<>>) =>
              /\ StepsLeft(1)' < StepsLeft(1)
              /\ StepsLeft(1)' >= 0]_vars

\* C19 witness: update_document ended with the connection error after more
\* delete_by_id attempts than the budget, every one of them failed
C19_Witness ==
    /\ retry = 2
    /\ Ended(1)
    /\ inv[1].op = "update_document"
    /\ ret[1].err = "ConnErr"
    /\ cnt[1]["delete_by_id"] > retry
    /\ cnt[1]["insert_many"] = 0

\* -------------------------------------------------- update, ingest: claims
\* update_document, invoked for a stored id, sees its add_document come back
\* with the connection error: the delete of this or an earlier pass went
\* through and the ingest failed
IngestFailed(c) ==
    /\ inv[c].op = "update_document"
    /\ inv[c].a.uuid \in DOMAIN inv[c].docs
    /\ Running(c, "update_document", "added")
    /\ ret[c].kind = "exc"
    /\ ret[c].err = "ConnErr"

\* store d without the record of id
Without(d, id) == [i \in DOMAIN d \ {id} |-> d[i]]

\* C21: when the ingest step of update_document fails with the connection
\* error after the delete went through, the except-branch issues no call to
\* the store (no rollback, no re-insert); with the budget at its last unit the
\* invocation raises the connection error; and when the invocation ends in
\* that step the store is the one of the invocation without the old record:
\* the old chunk deleted, no chunk of the new version stored.
C21_UpdateNotAtomic ==
    [][\A c \in Clients :
          IngestFailed(c) =>
              /\ UNCHANGED <<collections, docs, nextId, cnt>>
              /\ Top(c).x <= 1 =>
                    /\ stack'[c] = <<>>
                    /\ ret'[c].kind = "exc"
                    /\ ret'[c].err = "ConnErr"
              /\ stack'[c] = <<>> =>
                    /\ ret'[c].kind = "exc"
                    /\ docs' = Without(inv[c].docs, inv[c].a.uuid)]_vars

\* C22: a pass of list_documents that follows a pass failed with a
\* connectivity error issues the enumeration again for the collection name
\* the method was called with, and when the store answers it the method
\* returns the grouping of a failure-free call: every stored id and no
\* other, each with the file, title and doc_type of its record.
C22_ListRetrySameCollection ==
    [][\A c \in Clients :
          (/\ Running(c, "list_documents", "loop")
           /\ Top(c).n >= 1
           /\ Holds(Top(c).a.coll)) =>
              /\ ev'.call = "iterate"
              /\ ev'.arg = [name |-> Top(c).a.coll, obj |-> FALSE]
              /\ ev'.out \in {"ok", "connerr"}
              /\ ev'.out = "ok" =>
                    /\ ret'[c].kind = "ret"
                    /\ DOMAIN ret'[c].val = DOMAIN docs
                    /\ \A id \in DOMAIN docs :
                          /\ ret'[c].val[id].file = docs[id].file
                          /\ ret'[c].val[id].title = docs[id].title
                          /\ ret'[c].val[id].doc_type = docs[id].doc_type]_vars

\* C23: update_document called with missing document fields has left the
\* store as it was when it ends, the record of the given id still stored, and
\* unless the connection failed it ends with the invalid-argument error
\* (ValueError).
C23_UpdateInvalidKeepsRecord ==
    \A c \in Clients :
        (Ended(c) /\ inv[c].op = "update_document" /\ Missing(inv[c].a)) =>
            /\ ret[c].kind = "exc"
            /\ ret[c].err \in {"ValueError", "ConnErr"}
            /\ docs = inv[c].docs
            /\ collections = inv[c].collections
            /\ inv[c].a.uuid \in DOMAIN inv[c].docs => inv[c].a.uuid \in DOMAIN docs

\* the ids stored since client c's invocation began
StoredSince(c) == DOMAIN docs \ DOMAIN inv[c].docs

\* C24: when add_document has returned, the store holds one new record per
\* fragment of the call and no more, under the ids the call returned,
\* however many passes of the loop it took: re-submitting the batch has left
\* no duplicates.
C24_IngestNoDuplicates ==
    \A c \in Clients :
        Returned(c, "add_document") =>
            /\ Cardinality(StoredSince(c)) = Len(ret[c].val)
            /\ StoredSince(c) = {ret[c].val[i] : i \in 1..Len(ret[c].val)}
            /\ \A id \in DOMAIN inv[c].docs : id \in DOMAIN docs

\* ------------------------------------------------------------ add_url: claims
\* the fetch came back with status 200 and a content type that has a handler
Fetched(response) ==
    /\ response.reached
    /\ response.status_code = 200
    /\ "Content-Type" \in DOMAIN response.headers
    /\ ContentType(response.headers["Content-Type"])
           \in TextTypes \cup {"text/html", "application/pdf"}

\* the texts extract_from_url returns in place of a page's content
Messages == {"Failed to fetch the webpage. Status code: ", "Unsupported content type"}

\* C25: add_url hands a document to add_document only when the fetch came
\* back with status 200 and a supported content type, otherwise it is left
\* without a call of add_document; and no record of the store has the
\* failure or the unsupported message as its content.
C25_UrlOnlyFetchedContent ==
    /\ [][\A c \in Clients :
             (Running(c, "add_url", "start") /\ ~Fetched(ev'.arg)) =>
                 /\ Len(stack'[c]) < Len(stack[c])
                 /\ UNCHANGED <<docs, nextId, cnt>>]_vars
    /\ [](\A id \in DOMAIN docs :
             docs[id].content # <<>> => docs[id].content[1] \notin Messages)

\* ------------------------------------------------ connection error: claims
\* step e held an attempt that failed with a connectivity error: a call into
\* the store, or a connect() that made attempts (with self.retry = 0 it
\* makes none)
AttemptFailed(e) ==
    \/ e.call # "none" /\ e.out = "connerr"
    \/ e.reconn = "fail" /\ retry >= 1

\* the operation client c invoked names what the store holds and carries
\* the fields it needs
ValidCall(c) ==
    LET a == inv[c].a
        op == inv[c].op
    IN  /\ op \notin {"all_collections", "create", "delete"} =>
               StoreName(a.coll) \in inv[c].collections
        /\ op \in {"get_document", "get_documents"} =>
               (a.uuid = 0 \/ a.uuid \in DOMAIN inv[c].docs)
        /\ op \in {"get_document", "update_document"} => a.uuid # 0
        /\ op = "delete_document" => (a.uuid # 0 \/ a.filename # "")
        /\ op \in {"add_document", "update_document"} => Valid(a)

\* C26: for every budget R >= 0, a step in which a method raises the
\* connection error (not passing on the one of a method it called) holds a
\* connect or a store call that failed with a connectivity error; and an
\* operation with valid arguments raises nothing as long as no attempt has
\* failed: an exception arises only in a step with a failed attempt or in a
\* pass of a loop after a failed one.
C26_ExhaustedOnlyAfterFailure ==
    [][\A c \in Clients :
          (ret[c].kind # "exc" /\ ret'[c].kind = "exc") =>
              /\ ret'[c].err = "ConnErr" => AttemptFailed(ev')
              /\ ValidCall(c) => (AttemptFailed(ev') \/ Top(c).n >= 1)]_vars

====
